---- MODULE Spec2Model ----
(***************************************************************************)
(* A model of Simrou (src/src/simrou.js): the Route pattern compiler and   *)
(* matcher, the router's registry, resolve's dispatch through the event    *)
(* emitter, and navigate/start/stop against window.location.               *)
(*                                                                         *)
(* Strings are sequences of one-character strings, so that the replace()   *)
(* passes of the Route constructor, String(regexp) and getHash are         *)
(* computed character by character as the code computes them.              *)
(***************************************************************************)
EXTENDS Integers, Sequences, FiniteSets, TLC

(***************************************************************************)
(* Bounds of the model.                                                    *)
(***************************************************************************)
\* Route objects ever constructed by registerRoute in one run.
MaxRoutes == 2
\* Handlers bound on the Route objects at one time.
MaxHandlers == 2
\* Times start may bind its listeners without a stop in between.
MaxBind == 2
\* Hash-change notifications queued by the browser and not yet delivered.
MaxPending == 1

(***************************************************************************)
(* Strings and the static regular expressions (lines 8-10).                *)
(***************************************************************************)
\* escapeRegExp = /[-[\]{}()+?.,\\^$|#\s]/g : the characters the class holds.
escapeRegExp ==
    {"-", "[", "]", "{", "}", "(", ")", "+", "?", ".", ",", "\\", "^", "$", "|", "#", " "}

\* \w of namedParam and splatParam, over the characters the model's strings use.
WordChar ==
    {"a", "b", "d", "e", "f", "i", "l", "n", "r", "s", "u", "x", "y", "0", "7", "8", "_"}

\* The replacement strings '([^\/]+)' and '(.*?)' of line 85.
NamedGroup == <<"(", "[", "^", "/", "]", "+", ")">>
SplatGroup == <<"(", ".", "*", "?", ")">>

Drop(s, n) == SubSeq(s, n + 1, Len(s))

\* Length of the longest prefix of s made of characters of set C.
RECURSIVE Run(_, _)
Run(s, C) ==
    IF s = <<>> \/ Head(s) \notin C THEN 0 ELSE 1 + Run(Tail(s), C)

\* Length of the longest prefix of s made of characters outside set C.
RECURSIVE RunExcept(_, _)
RunExcept(s, C) ==
    IF s = <<>> \/ Head(s) \in C THEN 0 ELSE 1 + RunExcept(Tail(s), C)

IsPrefix(p, s) == Len(p) <= Len(s) /\ SubSeq(s, 1, Len(p)) = p

\* .replace(escapeRegExp, '\\$&'): a backslash before each character of the class.
RECURSIVE ReplaceEscape(_)
ReplaceEscape(s) ==
    IF s = <<>> THEN <<>>
    ELSE (IF Head(s) \in escapeRegExp THEN <<"\\", Head(s)>> ELSE <<Head(s)>>)
         \o ReplaceEscape(Tail(s))

\* .replace(namedParam, '([^\/]+)') with namedParam = /:\w+/g.
RECURSIVE ReplaceNamed(_)
ReplaceNamed(s) ==
    IF s = <<>> THEN <<>>
    ELSE IF Head(s) = ":" /\ Run(Tail(s), WordChar) >= 1
         THEN NamedGroup \o ReplaceNamed(Drop(s, 1 + Run(Tail(s), WordChar)))
         ELSE <<Head(s)>> \o ReplaceNamed(Tail(s))

\* .replace(splatParam, '(.*?)') with splatParam = /\*\w*/g.
RECURSIVE ReplaceSplat(_)
ReplaceSplat(s) ==
    IF s = <<>> THEN <<>>
    ELSE IF Head(s) = "*"
         THEN SplatGroup \o ReplaceSplat(Drop(s, 1 + Run(Tail(s), WordChar)))
         ELSE <<Head(s)>> \o ReplaceSplat(Tail(s))

(***************************************************************************)
(* JavaScript values passed as a pattern, and String(value).               *)
(***************************************************************************)
Str(v) == [t |-> "string", v |-> v]
Undefined == [t |-> "undefined"]
Null == [t |-> "null"]
False == [t |-> "boolean", b |-> FALSE]
Zero == [t |-> "number", n |-> 0]
Re(src) == [t |-> "regexp", v |-> src]

\* String(pattern) of line 85.
JsString(x) ==
    CASE x.t = "string" -> x.v
      [] x.t = "undefined" -> <<"u", "n", "d", "e", "f", "i", "n", "e", "d">>
      [] x.t = "null" -> <<"n", "u", "l", "l">>
      [] x.t = "boolean" -> IF x.b THEN <<"t", "r", "u", "e">>
                            ELSE <<"f", "a", "l", "s", "e">>
      [] x.t = "number" -> <<"0">>
      [] x.t = "regexp" -> <<"/">> \o x.v \o <<"/">>

(***************************************************************************)
(* The regular expressions the Route constructor builds, and exec.         *)
(* A RegExp object is its source text; exec parses the source into tokens  *)
(* and matches by backtracking, greedy for + and lazy for *?.              *)
(***************************************************************************)
RECURSIVE ParseRegExp(_)
ParseRegExp(src) ==
    IF src = <<>> THEN <<>>
    ELSE IF Head(src) = "\\" /\ Len(src) >= 2
         THEN <<[k |-> "lit", c |-> src[2]]>> \o ParseRegExp(Drop(src, 2))
    ELSE IF IsPrefix(NamedGroup, src)
         THEN <<[k |-> "named"]>> \o ParseRegExp(Drop(src, Len(NamedGroup)))
    ELSE IF IsPrefix(SplatGroup, src)
         THEN <<[k |-> "splat"]>> \o ParseRegExp(Drop(src, Len(SplatGroup)))
    ELSE IF IsPrefix(<<".", "+">>, src)
         THEN <<[k |-> "anyplus"]>> \o ParseRegExp(Drop(src, 2))
    ELSE IF Head(src) = "^"
         THEN <<[k |-> "bol"]>> \o ParseRegExp(Tail(src))
    ELSE IF Head(src) = "$"
         THEN <<[k |-> "eol"]>> \o ParseRegExp(Tail(src))
    ELSE <<[k |-> "lit", c |-> Head(src)]>> \o ParseRegExp(Tail(src))

NoMatch == [ok |-> FALSE, end |-> 0, caps |-> <<>>]

\* The match m of the rest of the tokens, after a token that took the n
\* characters of s from pos, as a group when captures is true.
Taken(m, s, pos, n, captures) ==
    [m EXCEPT !.caps = IF captures THEN <<SubSeq(s, pos, pos + n - 1)>> \o @ ELSE @]

\* Matches the tokens against s from position pos: the first match in
\* backtracking order, with the position after it and the captured groups.
\* [^/]+ and .+ try the longest run first, .*? the shortest.
RECURSIVE MatchFrom(_, _, _)
RECURSIVE MatchRun(_, _, _, _, _, _)

\* The first of the run lengths from n on, going up or down by step to the
\* length last, with which the tokens after the first one match.
MatchRun(toks, s, pos, n, step, last) ==
    IF (step > 0 /\ n > last) \/ (step < 0 /\ n < last) THEN NoMatch
    ELSE IF MatchFrom(Tail(toks), s, pos + n).ok
         THEN Taken(MatchFrom(Tail(toks), s, pos + n), s, pos, n,
                    Head(toks).k # "anyplus")
         ELSE MatchRun(toks, s, pos, n + step, step, last)

MatchFrom(toks, s, pos) ==
    IF toks = <<>> THEN [ok |-> TRUE, end |-> pos, caps |-> <<>>]
    ELSE CASE Head(toks).k = "bol" ->
                IF pos = 1 THEN MatchFrom(Tail(toks), s, pos) ELSE NoMatch
           [] Head(toks).k = "eol" ->
                IF pos = Len(s) + 1 THEN MatchFrom(Tail(toks), s, pos) ELSE NoMatch
           [] Head(toks).k = "lit" ->
                IF pos <= Len(s) /\ s[pos] = Head(toks).c
                THEN MatchFrom(Tail(toks), s, pos + 1) ELSE NoMatch
           [] Head(toks).k = "named" ->
                MatchRun(toks, s, pos, RunExcept(Drop(s, pos - 1), {"/"}), -1, 1)
           [] Head(toks).k = "splat" ->
                MatchRun(toks, s, pos, 0, 1, Len(s) - pos + 1)
           [] Head(toks).k = "anyplus" ->
                MatchRun(toks, s, pos, Len(s) - pos + 1, -1, 1)

\* The array exec returns for the match m found from position i.
MatchArray(s, i, m) ==
    [isArray |-> TRUE, arr |-> <<SubSeq(s, i, m.end - 1)>> \o m.caps]

\* exec tries the positions of s from i on and returns the first match.
RECURSIVE ExecFrom(_, _, _)
ExecFrom(toks, s, i) ==
    IF i > Len(s) + 1 THEN [isArray |-> FALSE, arr |-> <<>>]
    ELSE IF MatchFrom(toks, s, i).ok THEN MatchArray(s, i, MatchFrom(toks, s, i))
    ELSE ExecFrom(toks, s, i + 1)

\* expr.exec(hash): null, or the array of the whole match and the groups.
RegExpExec(src, s) == ExecFrom(ParseRegExp(src), s, 1)

\* RouteExpr without the '^' and '$' of line 88.
RouteExprUnanchored(pattern) ==
    IF pattern.t = "regexp" THEN pattern.v
    ELSE LET p == ReplaceSplat(ReplaceNamed(ReplaceEscape(JsString(pattern))))
         IN  IF p # <<>> THEN p
             ELSE <<"^", ".", "+", "$">>

\* The Initialization of the Route constructor (lines 82-92): the expr.
RouteExpr(pattern) ==
    IF pattern.t = "regexp" THEN pattern.v
    ELSE LET p == ReplaceSplat(ReplaceNamed(ReplaceEscape(JsString(pattern))))
         IN  IF p # <<>> THEN <<"^">> \o p \o <<"$">>
             ELSE <<"^", ".", "+", "$">>

\* MatchResult that tests the captured groups for emptiness instead of the
\* result of exec for being an array.
MatchResultConflated(matches) ==
    IF ~matches.isArray \/ Tail(matches.arr) = <<>> THEN [isFalse |-> TRUE, args |-> <<>>]
    ELSE [isFalse |-> FALSE, args |-> Tail(matches.arr)]

\* Lines 25-29 of match: false for no array, else matches.slice(1).
MatchResult(matches) ==
    IF ~matches.isArray THEN [isFalse |-> TRUE, args |-> <<>>]
    ELSE [isFalse |-> FALSE, args |-> Tail(matches.arr)]

\* Route.match (lines 22-30): false, or the captured groups.
RouteMatch(expr, hash) == MatchResult(RegExpExec(expr, hash))

\* String(route.getRegExp()) of lines 113 and 123: the registry key.
RouteName(expr) == <<"/">> \o expr \o <<"/">>


(***************************************************************************)
(* JavaScript truthiness and the jQuery event emitter the code calls:      *)
(* $(obj).on, $(obj).off and $(obj).trigger, on the handlers of one object *)
(* (a sequence of [type, handler] in the order they were bound).           *)
(***************************************************************************)
Fn(f) == [t |-> "function", f |-> f]

Truthy(x) ==
    CASE x.t = "string" -> x.v # <<>>
      [] x.t = "undefined" -> FALSE
      [] x.t = "null" -> FALSE
      [] x.t = "boolean" -> x.b
      [] x.t = "number" -> x.n # 0
      [] OTHER -> TRUE

isFunction(x) == x.t = "function"

\* 'simrou:' + method (lines 48, 60, 171, 175).
EventType(method) == <<"s", "i", "m", "r", "o", "u", ":">> \o JsString(method)

\* $(self).on(type, action): binds nothing when action is not given.
on(events, type, action) ==
    IF ~Truthy(action) THEN events
    ELSE Append(events, [type |-> type, handler |-> action.f])

\* $(self).off(type, action): every binding of action for the type, or, with
\* action undefined, every binding for the type.
off(events, type, action) ==
    LET Kept(e) == ~(e.type = type /\ (~isFunction(action) \/ e.handler = action.f))
    IN  SelectSeq(events, Kept)

\* $route.trigger(type, args): the handlers bound for the type, in the order
\* they were bound, each called with args.
RECURSIVE trigger(_, _, _, _)
trigger(id, events, type, args) ==
    IF events = <<>> THEN <<>>
    ELSE (IF Head(events).type = type
          THEN <<[route |-> id, type |-> type, handler |-> Head(events).handler,
                  args |-> args]>>
          ELSE <<>>)
         \o trigger(id, Tail(events), type, args)

(***************************************************************************)
(* Route.attachAction and Route.detachAction (lines 42-62), on the         *)
(* handlers of one Route.                                                  *)
(***************************************************************************)
attachAction(events, method, action) ==
    LET single == ~Truthy(action) /\ isFunction(method)
    IN  IF single THEN on(events, EventType(Str(<<"*">>)), method)
        ELSE on(events, EventType(method), action)

\* detachAction that passes no handler to off, whatever action is.
detachActionWholeMethod(events, method, action) ==
    LET single == ~Truthy(action) /\ isFunction(method)
    IN  IF single THEN off(events, EventType(Str(<<"*">>)), Undefined)
        ELSE off(events, EventType(method), Undefined)

detachAction(events, method, action) ==
    LET single == ~Truthy(action) /\ isFunction(method)
    IN  IF single THEN off(events, EventType(Str(<<"*">>)), method)
        ELSE off(events, EventType(method),
                 IF isFunction(action) THEN action ELSE Undefined)

(***************************************************************************)
(* window.location.hash: the browser keeps the fragment; reading gives ""  *)
(* for an empty fragment and "#" + fragment otherwise, assigning drops one *)
(* leading "#" of the value.                                               *)
(***************************************************************************)
LocFragment(value) == IF value # <<>> /\ Head(value) = "#" THEN Tail(value) ELSE value

LocHash(fragment) == IF fragment = <<>> THEN <<>> ELSE <<"#">> \o fragment


\* getHash (lines 186-188): loc.hash.replace(/^#*(.*)$/, '$1').
getHash(fragment) ==
    LET hash == LocHash(fragment)
    IN  Drop(hash, Run(hash, {"#"}))

(***************************************************************************)
(* The state of one Simrou instance in its page.                           *)
(***************************************************************************)
VARIABLES
    heap,           \* the Route objects constructed so far: [expr, events]
    routes,         \* the registry, in property order: <<[name, route]>>
    observingHash,  \* line 103
    fragment,       \* the fragment of window.location
    hashchange,     \* bindings of resolveHash to window's hashchange event
    submit,         \* bindings of handleFormSubmit to form submissions
    pending,        \* hashchange notifications queued by the browser
    last,           \* the last operation: [op, args, ret]
    passes          \* the resolve calls it made: <<[hash, method, ret, calls]>>

vars == <<heap, routes, observingHash, fragment, hashchange, submit, pending, last, passes>>

S_get == Str(<<"g", "e", "t">>)
S_put == Str(<<"p", "u", "t">>)
S_star == Str(<<"*">>)
S_empty == Str(<<>>)

(***************************************************************************)
(* The registry object routes = {} (line 102): assignment, lookup, delete  *)
(* and for-in order (a new key goes last, an assigned key keeps its place).*)
(***************************************************************************)
RoutesHas(rs, name) == \E i \in DOMAIN rs : rs[i].name = name

RoutesGet(rs, name) == rs[CHOOSE i \in DOMAIN rs : rs[i].name = name].route

\* RoutesPut for a registry kept as a list: every registration is added.
RoutesPutAppend(rs, name, id) == Append(rs, [name |-> name, route |-> id])

\* RoutesPut that leaves an existing entry alone.
RoutesPutKeepFirst(rs, name, id) ==
    IF RoutesHas(rs, name) THEN rs ELSE Append(rs, [name |-> name, route |-> id])

RoutesPut(rs, name, id) ==
    IF RoutesHas(rs, name)
    THEN [i \in DOMAIN rs |-> IF rs[i].name = name THEN [name |-> name, route |-> id]
                              ELSE rs[i]]
    ELSE Append(rs, [name |-> name, route |-> id])

RoutesDelete(rs, name) ==
    LET Other(r) == r.name # name
    IN  SelectSeq(rs, Other)

(***************************************************************************)
(* registerRoute (lines 106-115) and removeRoute (lines 118-130).          *)
(***************************************************************************)
\* new Route(pattern), followed by route.get(getAction) when one is given.
NewRoute(pattern, getAction) ==
    [expr |-> RouteExpr(pattern),
     events |-> IF Truthy(getAction) THEN attachAction(<<>>, S_get, getAction)
                ELSE <<>>]

registerRoute(pattern, getAction) ==
    LET route == NewRoute(pattern, getAction)
        id == Len(heap) + 1
    IN  [heap |-> Append(heap, route),
         routes |-> RoutesPut(routes, RouteName(route.expr), id),
         ret |-> id]

\* removeRoute that deletes the entry only when it holds the very Route passed.
removeRouteSameObject(route) ==
    LET expr == IF route.t = "route" THEN heap[route.id].expr ELSE RouteExpr(route)
        name == RouteName(expr)
    IN  IF RoutesHas(routes, name) /\ (route.t = "route" => RoutesGet(routes, name) = route.id)
        THEN [routes |-> RoutesDelete(routes, name), deleted |-> TRUE]
        ELSE [routes |-> routes, deleted |-> FALSE]

\* removeRoute that, for a pattern, deletes every route matching the pattern's
\* text instead of the route with the pattern's key.
removeRouteMatching(route) ==
    LET Other(r) == RouteMatch(heap[r.route].expr, JsString(route)).isFalse
    IN  IF route.t = "route"
        THEN [routes |-> RoutesDelete(routes, RouteName(heap[route.id].expr)),
              deleted |-> RoutesHas(routes, RouteName(heap[route.id].expr))]
        ELSE [routes |-> SelectSeq(routes, Other),
              deleted |-> SelectSeq(routes, Other) # routes]

\* The argument is a Route ([t |-> "route", id]) or a pattern.
removeRoute(route) ==
    LET expr == IF route.t = "route" THEN heap[route.id].expr ELSE RouteExpr(route)
        name == RouteName(expr)
    IN  IF RoutesHas(routes, name)
        THEN [routes |-> RoutesDelete(routes, name), deleted |-> TRUE]
        ELSE [routes |-> routes, deleted |-> FALSE]

(***************************************************************************)
(* resolve (lines 147-182).                                                *)
(***************************************************************************)
\* ResolveRoute with the two trigger calls in the other order.
ResolveRouteMethodFirst(r, hash, method) ==
    LET route == heap[r.route]
        m == RouteMatch(route.expr, JsString(hash))
        args == <<method>> \o m.args
    IN  IF m.isFalse THEN [match |-> FALSE, calls |-> <<>>]
        ELSE [match |-> TRUE,
              calls |-> (IF Truthy(method)
                         THEN trigger(r.route, route.events, EventType(method), args)
                         ELSE <<>>)
                        \o trigger(r.route, route.events, EventType(S_star), args)]

\* ResolveRoute with the wildcard trigger moved inside "if (method)".
ResolveRouteWildcardGuarded(r, hash, method) ==
    LET route == heap[r.route]
        m == RouteMatch(route.expr, JsString(hash))
        args == <<method>> \o m.args
    IN  IF m.isFalse THEN [match |-> FALSE, calls |-> <<>>]
        ELSE [match |-> TRUE,
              calls |-> IF Truthy(method)
                        THEN trigger(r.route, route.events, EventType(S_star), args)
                             \o trigger(r.route, route.events, EventType(method), args)
                        ELSE <<>>]

\* ResolveRoute without the "if (method)" around the second trigger.
ResolveRouteMethodUnguarded(r, hash, method) ==
    LET route == heap[r.route]
        m == RouteMatch(route.expr, JsString(hash))
        args == <<method>> \o m.args
    IN  IF m.isFalse THEN [match |-> FALSE, calls |-> <<>>]
        ELSE [match |-> TRUE,
              calls |-> trigger(r.route, route.events, EventType(S_star), args)
                        \o trigger(r.route, route.events, EventType(method), args)]

\* The loop body for one registry entry: whether it matched, and the
\* handler calls its two trigger calls made.
ResolveRoute(r, hash, method) ==
    LET route == heap[r.route]
        m == RouteMatch(route.expr, JsString(hash))
        args == <<method>> \o m.args
    IN  IF m.isFalse THEN [match |-> FALSE, calls |-> <<>>]
        ELSE [match |-> TRUE,
              calls |-> trigger(r.route, route.events, EventType(S_star), args)
                        \o (IF Truthy(method)
                            THEN trigger(r.route, route.events, EventType(method), args)
                            ELSE <<>>)]

\* ResolveLoop returning from inside the loop after the first entry.
ResolveLoopFirstEntry(rs, hash, method) ==
    IF rs = <<>> THEN [match |-> FALSE, calls |-> <<>>]
    ELSE ResolveRoute(Head(rs), hash, method)

\* ResolveLoop leaving the loop at the first match.
RECURSIVE ResolveLoopBreak(_, _, _)
ResolveLoopBreak(rs, hash, method) ==
    IF rs = <<>> THEN [match |-> FALSE, calls |-> <<>>]
    ELSE LET one == ResolveRoute(Head(rs), hash, method)
         IN  IF one.match THEN one ELSE ResolveLoopBreak(Tail(rs), hash, method)

RECURSIVE ResolveLoop(_, _, _)
ResolveLoop(rs, hash, method) ==
    IF rs = <<>> THEN [match |-> FALSE, calls |-> <<>>]
    ELSE LET one == ResolveRoute(Head(rs), hash, method)
             rest == ResolveLoop(Tail(rs), hash, method)
         IN  [match |-> one.match \/ rest.match, calls |-> one.calls \o rest.calls]

\* resolve that dispatches only while the router observes the hash.
resolveWhileObserving(hash, method) ==
    IF ~Truthy(hash) \/ ~observingHash
    THEN [hash |-> hash, method |-> method, ret |-> FALSE, calls |-> <<>>]
    ELSE LET loop == ResolveLoop(routes, hash, method)
         IN  [hash |-> hash, method |-> method, ret |-> loop.match, calls |-> loop.calls]

\* resolve without the "if (!hash)" return.
resolveUnguarded(hash, method) ==
    LET loop == ResolveLoop(routes, hash, method)
    IN  [hash |-> hash, method |-> method, ret |-> loop.match, calls |-> loop.calls]

\* One call of resolve, as recorded in passes.
resolve(hash, method) ==
    IF ~Truthy(hash)
    THEN [hash |-> hash, method |-> method, ret |-> FALSE, calls |-> <<>>]
    ELSE LET loop == ResolveLoop(routes, hash, method)
         IN  [hash |-> hash, method |-> method, ret |-> loop.match, calls |-> loop.calls]

(***************************************************************************)
(* navigate (lines 133-142), resolveHash (192-194), handleFormSubmit       *)
(* (198-204).                                                              *)
(***************************************************************************)
\* With observing the value of observingHash when navigate is entered.
navigate(observing, hash) ==
    LET isChange == LocHash(fragment) # JsString(hash)
    IN  [fragment |-> LocFragment(JsString(hash)),
         isChange |-> isChange,
         passes |-> IF ~observing \/ ~isChange THEN <<resolve(hash, S_get)>> ELSE <<>>]

resolveHash == resolve(Str(getHash(fragment)), S_get)

Lower(c) ==
    CASE c = "G" -> "g" [] c = "E" -> "e" [] c = "T" -> "t"
      [] c = "P" -> "p" [] c = "U" -> "u" [] OTHER -> c

toLowerCase(s) == [i \in DOMAIN s |-> Lower(s[i])]

\* attrMethod and attrAction are the form's attributes; the result is the
\* resolve call made and the value the handler returns.
handleFormSubmit(attrMethod, attrAction) ==
    LET lower == toLowerCase(JsString(attrMethod))
        method == IF lower # <<>> THEN Str(lower) ELSE S_get
        pass == resolve(attrAction, method)
    IN  [pass |-> pass, ret |-> ~pass.ret]

\* n copies of x.
Times(n, x) == [i \in 1..n |-> x]


(***************************************************************************)
(* The inputs the operations are called with.                              *)
(***************************************************************************)
P_named == Str(<<"a", "/", ":", "x">>)
P_named2 == Str(<<"a", "/", ":", "y">>)
P_splat == Str(<<"a", "/", "*", "r">>)
P_star == Str(<<"*">>)
P_lit == Str(<<"b">>)

H_a7 == <<"a", "/", "7">>
H_a78 == <<"a", "/", "7", "/", "8">>
H_b == <<"b">>

Fragments == {<<>>, H_a7, H_b}

HandlerCount(h) ==
    LET RECURSIVE Sum(_)
        Sum(i) == IF i = 0 THEN 0 ELSE Len(h[i].events) + Sum(i - 1)
    IN  Sum(Len(h))

Op(op, args, ret) == [op |-> op, args |-> args, ret |-> ret]

(***************************************************************************)
(* Init: a new Simrou() (lines 99-103) in a page whose location has some   *)
(* fragment; no listener is bound yet.                                     *)
(***************************************************************************)
Init ==
    /\ heap = <<>>
    /\ routes = <<>>
    /\ observingHash = FALSE
    /\ fragment \in Fragments
    /\ hashchange = 0
    /\ submit = 0
    /\ pending = 0
    /\ last = Op("new", <<>>, 0)
    /\ passes = <<>>

(***************************************************************************)
(* One action per operation.                                               *)
(***************************************************************************)
RegisterRoute(pattern, getAction) ==
    /\ Len(heap) < MaxRoutes
    /\ Truthy(getAction) => HandlerCount(heap) < MaxHandlers
    /\ \E r \in {registerRoute(pattern, getAction)} :
           /\ heap' = r.heap
           /\ routes' = r.routes
           /\ last' = Op("registerRoute", <<pattern, getAction>>, r.ret)
    /\ passes' = <<>>
    /\ UNCHANGED <<observingHash, fragment, hashchange, submit, pending>>

RemoveRoute(route) ==
    /\ route.t = "route" => route.id \in DOMAIN heap
    /\ \E r \in {removeRoute(route)} :
           /\ routes' = r.routes
           /\ last' = Op("removeRoute", <<route>>, r.deleted)
    /\ passes' = <<>>
    /\ UNCHANGED <<heap, observingHash, fragment, hashchange, submit, pending>>

AttachAction(id, method, action) ==
    /\ id \in DOMAIN heap
    /\ HandlerCount(heap) < MaxHandlers
    /\ heap' = [heap EXCEPT ![id].events = attachAction(@, method, action)]
    /\ last' = Op("attachAction", <<id, method, action>>, id)
    /\ passes' = <<>>
    /\ UNCHANGED <<routes, observingHash, fragment, hashchange, submit, pending>>

DetachAction(id, method, action) ==
    /\ id \in DOMAIN heap
    /\ heap' = [heap EXCEPT ![id].events = detachAction(@, method, action)]
    /\ last' = Op("detachAction", <<id, method, action>>, id)
    /\ passes' = <<>>
    /\ UNCHANGED <<routes, observingHash, fragment, hashchange, submit, pending>>

Resolve(hash, method) ==
    /\ \E pass \in {resolve(hash, method)} :
           /\ passes' = <<pass>>
           /\ last' = Op("resolve", <<hash, method>>, pass.ret)
    /\ UNCHANGED <<heap, routes, observingHash, fragment, hashchange, submit, pending>>

\* The browser queues one hashchange notification when the fragment changes.
Queued(old, new) == IF new # old THEN 1 ELSE 0

Navigate(hash) ==
    /\ \E n \in {navigate(observingHash, hash)} :
           /\ pending + Queued(fragment, n.fragment) <= MaxPending
           /\ fragment' = n.fragment
           /\ pending' = pending + Queued(fragment, n.fragment)
           /\ passes' = n.passes
           /\ last' = Op("navigate", <<hash>>, n.isChange)
    /\ UNCHANGED <<heap, routes, observingHash, hashchange, submit>>

\* StartResolve without the else of line 230: the hash is resolved after the
\* navigation to initialHash as well.
StartResolveNoElse(observing, initialHash) ==
    IF getHash(fragment) = <<>> /\ Truthy(initialHash)
    THEN [navigate(observing, initialHash) EXCEPT
              !.passes = @ \o <<resolve(Str(getHash(LocFragment(JsString(initialHash)))), S_get)>>]
    ELSE [fragment |-> fragment, isChange |-> FALSE,
          passes |-> <<resolve(Str(getHash(fragment)), S_get)>>]

\* What start does after binding its listeners (lines 224-232), with
\* observing the value observingHash then has.
StartResolve(observing, initialHash) ==
    IF getHash(fragment) = <<>>
    THEN IF Truthy(initialHash) THEN navigate(observing, initialHash)
         ELSE [fragment |-> fragment, isChange |-> FALSE, passes |-> <<>>]
    ELSE [fragment |-> fragment, isChange |-> FALSE,
          passes |-> <<resolve(Str(getHash(fragment)), S_get)>>]

Start(initialHash, dontObserveHash) ==
    /\ submit < MaxBind
    /\ \E n \in {StartResolve(~Truthy(dontObserveHash) \/ observingHash, initialHash)} :
           /\ pending + Queued(fragment, n.fragment) <= MaxPending
           /\ hashchange' = IF ~Truthy(dontObserveHash) THEN hashchange + 1
                            ELSE hashchange
           /\ observingHash' = (~Truthy(dontObserveHash) \/ observingHash)
           /\ submit' = submit + 1
           /\ fragment' = n.fragment
           /\ pending' = pending + Queued(fragment, n.fragment)
           /\ passes' = n.passes
           /\ last' = Op("start", <<initialHash, dontObserveHash>>, 0)
    /\ UNCHANGED <<heap, routes>>

\* Stop that unbinds the handlers of the registered Routes as well.
StopUnbindsRoutes ==
    /\ hashchange' = 0
    /\ observingHash' = FALSE
    /\ submit' = 0
    /\ heap' = [id \in DOMAIN heap |->
                    IF \E k \in DOMAIN routes : routes[k].route = id
                    THEN [heap[id] EXCEPT !.events = <<>>] ELSE heap[id]]
    /\ last' = Op("stop", <<>>, 0)
    /\ passes' = <<>>
    /\ UNCHANGED <<routes, fragment, pending>>

Stop ==
    /\ hashchange' = 0
    /\ observingHash' = FALSE
    /\ submit' = 0
    /\ last' = Op("stop", <<>>, 0)
    /\ passes' = <<>>
    /\ UNCHANGED <<heap, routes, fragment, pending>>

\* The browser delivers a queued hashchange notification: every binding of
\* resolveHash runs.
HashChange ==
    /\ pending > 0
    /\ pending' = pending - 1
    /\ \E pass \in {resolveHash} : passes' = Times(hashchange, pass)
    /\ last' = Op("hashchange", <<>>, 0)
    /\ UNCHANGED <<heap, routes, observingHash, fragment, hashchange, submit>>

\* The user follows a link or edits the address: the fragment changes.
BrowserHash(new) ==
    /\ new # fragment
    /\ pending < MaxPending
    /\ fragment' = new
    /\ pending' = pending + 1
    /\ last' = Op("location", <<new>>, 0)
    /\ passes' = <<>>
    /\ UNCHANGED <<heap, routes, observingHash, hashchange, submit>>

\* A form is submitted: every binding of handleFormSubmit runs.
FormSubmit(attrMethod, attrAction) ==
    /\ submit > 0
    /\ \E h \in {handleFormSubmit(attrMethod, attrAction)} :
           /\ passes' = Times(submit, h.pass)
           /\ last' = Op("submit", <<attrMethod, attrAction>>, h.ret)
    /\ UNCHANGED <<heap, routes, observingHash, fragment, hashchange, submit, pending>>

RouteRefs == {[t |-> "route", id |-> i] : i \in 1..MaxRoutes}

True == [t |-> "boolean", b |-> TRUE]
H_hash_a7 == <<"#">> \o H_a7

(***************************************************************************)
(* Spec: every operation of the router.                                    *)
(***************************************************************************)
Next ==
    \/ \E p \in {P_named, S_empty}, g \in {Undefined, Fn(1)} : RegisterRoute(p, g)
    \/ \E r \in RouteRefs \cup {P_named2} : RemoveRoute(r)
    \/ \E id \in 1..MaxRoutes : AttachAction(id, S_get, Fn(2))
    \/ \E id \in 1..MaxRoutes : AttachAction(id, Fn(2), Undefined)
    \/ \E id \in 1..MaxRoutes, f \in {Undefined, Fn(1)} : DetachAction(id, S_get, f)
    \/ \E m \in {Undefined, S_get} : Resolve(Str(H_a7), m)
    \/ \E h \in {H_a7, H_hash_a7} : Navigate(Str(h))
    \/ \E h \in {Undefined, Str(H_a7)}, d \in {Undefined, True} : Start(h, d)
    \/ Stop
    \/ HashChange
    \/ \E f \in {<<>>, H_a7} : BrowserHash(f)
    \/ \E m \in {Undefined, Str(<<"P", "U", "T">>)} : FormSubmit(m, Str(H_a7))

Spec == Init /\ [][Next]_vars


(***************************************************************************)
(* SpecDispatch: registering, removing, attaching and resolving, with two  *)
(* patterns that both match "a/7".                                         *)
(***************************************************************************)
InitRouter == Init /\ fragment = <<>>

NextDispatch ==
    \/ \E p \in {P_named, P_star} : RegisterRoute(p, Undefined)
    \/ \E r \in RouteRefs : RemoveRoute(r)
    \/ \E id \in 1..MaxRoutes, m \in {S_star, S_get, S_put} : AttachAction(id, m, Fn(1))
    \/ \E h \in {<<>>, H_a7, H_b}, m \in {Undefined, S_get, S_put} : Resolve(Str(h), m)

SpecDispatch == InitRouter /\ [][NextDispatch]_vars

(***************************************************************************)
(* What the claims read of the last resolve call.                          *)
(***************************************************************************)
Resolved == last.op = "resolve"
TheHash == last.args[1]
TheMethod == last.args[2]
TheCalls == passes[1].calls

\* The Route objects the registry holds.
Registered == {routes[k].route : k \in DOMAIN routes}

Accepts(id, hash) == ~RouteMatch(heap[id].expr, JsString(hash)).isFalse

\* How many handlers of a Route are bound for an event type, and how many of
\* the calls are calls of that Route's handlers for that type.
Bound(id, type) == Cardinality({i \in DOMAIN heap[id].events : heap[id].events[i].type = type})
Called(calls, id, type) ==
    Cardinality({i \in DOMAIN calls : calls[i].route = id /\ calls[i].type = type})

\* C1: for a non-empty hash, resolve returns true iff some route of the
\* registry matches the hash, and every matching route has been reached: each
\* of its wildcard handlers has been called.
C1_ResolveIffSomeRouteMatches ==
    (Resolved /\ Truthy(TheHash)) =>
        /\ last.ret = (\E id \in Registered : Accepts(id, TheHash))
        /\ \A id \in Registered :
              Accepts(id, TheHash) => Called(TheCalls, id, EventType(S_star)) >= Bound(id, EventType(S_star))

\* resolve returned true for "b" although the first route of the registry
\* does not match it.
C1_Witness ==
    /\ Resolved /\ TheHash = Str(H_b) /\ last.ret = TRUE
    /\ Len(routes) = 2 /\ ~Accepts(routes[1].route, TheHash)

\* C2: on a matching route the wildcard handlers are called before the
\* handlers of the given method, each with (method, captured params), and no
\* handler bound for another method is called.
C2_WildcardThenMethod ==
    (Resolved /\ Truthy(TheHash) /\ Truthy(TheMethod)) =>
        /\ \A i \in DOMAIN TheCalls :
              /\ TheCalls[i].type \in {EventType(S_star), EventType(TheMethod)}
              /\ TheCalls[i].args =
                    <<TheMethod>> \o RouteMatch(heap[TheCalls[i].route].expr, TheHash.v).args
        /\ \A i, j \in DOMAIN TheCalls :
              (i < j /\ TheCalls[i].route = TheCalls[j].route)
                 => ~(TheCalls[i].type # EventType(S_star) /\ TheCalls[j].type = EventType(S_star))
        /\ \A id \in Registered : \A t \in {EventType(S_star), EventType(TheMethod)} :
              Accepts(id, TheHash) => Called(TheCalls, id, t) = Bound(id, t)

\* "a/7" resolved with "put" against "a/:x": the wildcard handler, then the
\* put handler, both with ("put", "7").
C2_Witness ==
    /\ Resolved /\ TheHash = Str(H_a7) /\ TheMethod = S_put
    /\ Len(TheCalls) = 2
    /\ TheCalls[1].type = EventType(S_star) /\ TheCalls[2].type = EventType(S_put)
    /\ TheCalls[1].args = <<S_put, <<"7">>>> /\ TheCalls[2].args = <<S_put, <<"7">>>>
    /\ \E id \in Registered : heap[id].events[1].type = EventType(S_put)

\* A handler bound for "get" stays uncalled when "put" is resolved.
C2_WitnessOtherMethod ==
    /\ Resolved /\ TheHash = Str(H_a7) /\ TheMethod = S_put /\ last.ret = TRUE
    /\ \E id \in Registered :
          /\ Accepts(id, TheHash)
          /\ Bound(id, EventType(S_get)) = 1 /\ Bound(id, EventType(S_put)) = 1
    /\ Len(TheCalls) = 1

\* C3: every route of the registry that matches the hash has its handlers
\* called in the same resolve pass, not only the first one.
C3_EveryMatchingRouteFires ==
    (Resolved /\ Truthy(TheHash)) =>
        \A id \in Registered :
            Accepts(id, TheHash) =>
                /\ Called(TheCalls, id, EventType(S_star)) = Bound(id, EventType(S_star))
                /\ Truthy(TheMethod) =>
                      Called(TheCalls, id, EventType(TheMethod)) = Bound(id, EventType(TheMethod))

\* "a/:x" and "*" are both registered with a handler and "a/7" called both.
C3_Witness ==
    /\ Resolved /\ TheHash = Str(H_a7)
    /\ Len(routes) = 2 /\ Len(TheCalls) = 2
    /\ TheCalls[1].route # TheCalls[2].route

\* C4: resolve of an empty hash returns false and calls no handler.
C4_EmptyHashResolvesNothing ==
    (Resolved /\ ~Truthy(TheHash)) => (last.ret = FALSE /\ TheCalls = <<>>)

\* The empty hash was resolved while the route "*", which matches every
\* string, the empty one included, was registered with a wildcard handler.
C4_Witness ==
    /\ Resolved /\ TheHash = S_empty
    /\ \E id \in Registered :
          /\ heap[id].expr = RouteExpr(P_star)
          /\ Accepts(id, S_empty)
          /\ Bound(id, EventType(S_star)) > 0


(***************************************************************************)
(* SpecMethod: resolving with and without a method, against handlers bound *)
(* for "*", for "put" and for the events 'simrou:' and 'simrou:undefined'  *)
(* that an absent or empty method would name.                              *)
(***************************************************************************)
S_undefined == Str(JsString(Undefined))

NextMethod ==
    \/ \E p \in {P_named, P_lit} : RegisterRoute(p, Undefined)
    \/ \E id \in 1..MaxRoutes, m \in {S_star, S_empty, S_undefined, S_put} :
          AttachAction(id, m, Fn(1))
    \/ \E h \in {H_a7, H_b}, m \in {Undefined, S_empty, S_put} : Resolve(Str(h), m)

SpecMethod == InitRouter /\ [][NextMethod]_vars

\* C5: on every matching route the wildcard handlers are called whatever the
\* method is; the handlers of 'simrou:' + method are called only for a truthy
\* method, so that resolve without a method calls wildcard handlers only.
C5_MethodEventOnlyIfTruthy ==
    (Resolved /\ Truthy(TheHash)) =>
        /\ \A id \in Registered :
              Accepts(id, TheHash) =>
                  Called(TheCalls, id, EventType(S_star)) = Bound(id, EventType(S_star))
        /\ ~Truthy(TheMethod) =>
              \A i \in DOMAIN TheCalls : TheCalls[i].type = EventType(S_star)
        /\ Truthy(TheMethod) =>
              \A id \in Registered :
                  Accepts(id, TheHash) =>
                      Called(TheCalls, id, EventType(TheMethod)) = Bound(id, EventType(TheMethod))

\* resolve("a/7") without a method, on a route with a wildcard handler and a
\* handler bound for 'simrou:undefined': only the wildcard handler is called.
C5_Witness ==
    /\ Resolved /\ TheHash = Str(H_a7) /\ TheMethod = Undefined
    /\ \E id \in Registered :
          /\ Accepts(id, TheHash)
          /\ Bound(id, EventType(S_star)) = 1
          /\ Bound(id, EventType(Undefined)) = 1
    /\ Len(TheCalls) = 1 /\ TheCalls[1].args = <<Undefined, <<"7">>>>


(***************************************************************************)
(* SpecRegistry: registering a pattern again, with and without a get       *)
(* handler, removing by Route and by pattern, attaching through any Route  *)
(* returned so far, and resolving with "get".                              *)
(***************************************************************************)
NextRegistry ==
    \/ \E p \in {P_named, P_star}, g \in {Undefined, Fn(1)} : RegisterRoute(p, g)
    \/ \E r \in RouteRefs \cup {P_named2, P_lit} : RemoveRoute(r)
    \/ \E id \in 1..MaxRoutes, m \in {S_star, S_get} : AttachAction(id, m, Fn(2))
    \/ \E h \in {H_a7, H_b} : Resolve(Str(h), S_get)

SpecRegistry == InitRouter /\ [][NextRegistry]_vars

\* The canonical key of what removeRoute was called with.
KeyOf(route) ==
    RouteName(IF route.t = "route" THEN heap[route.id].expr ELSE RouteExpr(route))

\* The Route objects constructed for the same key as Route id.
SameKey(id) == {j \in DOMAIN heap : RouteName(heap[j].expr) = RouteName(heap[id].expr)}

\* C6: the registry holds at most one Route per canonical key, each under its
\* own key; after removeRoute no route is left for the key removed, whichever
\* registration the argument came from; and resolve calls handlers of
\* registered routes only, so with the key gone it returns false for that key's
\* hashes and calls no handler of either registration.
C6_OneRoutePerKey ==
    /\ \A i, j \in DOMAIN routes : routes[i].name = routes[j].name => i = j
    /\ \A k \in DOMAIN routes : routes[k].name = RouteName(heap[routes[k].route].expr)
    /\ last.op = "removeRoute" =>
          \A k \in DOMAIN routes : routes[k].name # KeyOf(last.args[1])
    /\ Resolved =>
          /\ \A i \in DOMAIN TheCalls : TheCalls[i].route \in Registered
          /\ Registered = {} => (last.ret = FALSE /\ TheCalls = <<>>)

\* "a/:x" was registered twice with a get handler and removed once; "a/7"
\* then resolves to false with no call.
C6_Witness ==
    /\ Resolved /\ TheHash = Str(H_a7) /\ last.ret = FALSE /\ TheCalls = <<>>
    /\ Len(heap) = 2 /\ routes = <<>>
    /\ \A id \in DOMAIN heap :
          heap[id].expr = RouteExpr(P_named) /\ Bound(id, EventType(S_get)) = 1

\* C7: the registry entry of a key holds the Route constructed last for it,
\* and resolve calls handlers of that Route only: no handler of an earlier
\* Route of the same key is called, however it was attached.
C7_SecondRouteReplacesFirst ==
    /\ \A k \in DOMAIN routes : \A j \in SameKey(routes[k].route) : j <= routes[k].route
    /\ Resolved =>
          \A i \in DOMAIN TheCalls : \A j \in SameKey(TheCalls[i].route) : j <= TheCalls[i].route

\* "a/:x" registered twice; the first Route has a get handler attached through
\* the Route returned, the second the get handler it was registered with:
\* resolve("a/7", "get") calls the second Route's handler only.
C7_Witness ==
    /\ Resolved /\ TheHash = Str(H_a7) /\ TheMethod = S_get
    /\ Len(heap) = 2 /\ heap[1].expr = heap[2].expr
    /\ heap[1].events = <<[type |-> EventType(S_get), handler |-> 2]>>
    /\ heap[2].events = <<[type |-> EventType(S_get), handler |-> 1]>>
    /\ Len(TheCalls) = 1 /\ TheCalls[1].route = 2 /\ TheCalls[1].handler = 1

\* C8: when every Route constructed so far came from registering one pattern
\* with the same get handler and nothing else was attached, the registry has
\* one entry and a matching resolve(hash, "get") calls the handler once, as
\* after a single registration.
C8_ReRegistrationIdempotent ==
    (/\ Resolved /\ TheMethod = S_get /\ Truthy(TheHash)
     /\ heap # <<>> /\ routes # <<>>
     /\ \A id \in DOMAIN heap : heap[id] = heap[1]
     /\ Len(heap[1].events) = 1 /\ heap[1].events[1].type = EventType(S_get)
     /\ Accepts(1, TheHash))
    => /\ Len(routes) = 1
       /\ last.ret = TRUE
       /\ Len(TheCalls) = 1
       /\ TheCalls[1].handler = heap[1].events[1].handler
       /\ TheCalls[1].args = <<S_get>> \o RouteMatch(heap[1].expr, TheHash.v).args

\* "a/:x" registered twice with get handler 1, then "a/7" resolved with "get".
C8_Witness ==
    /\ Resolved /\ TheHash = Str(H_a7) /\ TheMethod = S_get
    /\ Len(heap) = 2 /\ heap[1] = heap[2] /\ heap[1].expr = RouteExpr(P_named)
    /\ heap[1].events = <<[type |-> EventType(S_get), handler |-> 1]>>
    /\ Len(routes) = 1 /\ Len(TheCalls) = 1

\* C9: a removeRoute whose key is not in the registry changes nothing: the
\* registry, the Routes and their handlers and the rest of the router's state
\* stay as they were, so every later resolve gives what it gave before.
C9_RemoveAbsentIsNoOp ==
    [][(/\ last'.op = "removeRoute"
        /\ \A k \in DOMAIN routes : routes[k].name # KeyOf(last'.args[1]))
       => UNCHANGED <<heap, routes, observingHash, fragment, hashchange, submit, pending>>]_vars

\* removeRoute("b") was called with no route of that key registered, while
\* "*", which matches "b", is registered with a handler.
C9_Witness ==
    /\ last.op = "removeRoute" /\ last.args = <<P_lit>> /\ last.ret = FALSE
    /\ \E id \in Registered : Accepts(id, P_lit) /\ heap[id].events # <<>>


(***************************************************************************)
(* SpecNavigate: one route with a get handler, and the router started,     *)
(* stopped and navigated while the browser changes the fragment and        *)
(* delivers its hashchange notifications.                                  *)
(***************************************************************************)
NextNavigate ==
    \/ RegisterRoute(P_named, Fn(1))
    \/ \E h \in {<<>>, H_a7, H_hash_a7, H_b} : Navigate(Str(h))
    \/ \E h \in {Undefined, Str(H_a7)}, d \in {Undefined, True} : Start(h, d)
    \/ Stop
    \/ HashChange
    \/ \E f \in Fragments : BrowserHash(f)

SpecNavigate == Init /\ [][NextNavigate]_vars

\* C10: a navigate step leaves the location at the hash given, and when that
\* did not change the location, or the router is not observing, it has called
\* resolve(hash, "get") exactly once.
C10_NavigateSelfResolves ==
    [][last'.op = "navigate" =>
          /\ getHash(fragment') = Drop(last'.args[1].v, Run(last'.args[1].v, {"#"}))
          /\ (fragment' = fragment \/ ~observingHash) =>
                /\ Len(passes') = 1
                /\ passes'[1].hash = last'.args[1]
                /\ passes'[1].method = S_get]_vars


(***************************************************************************)
(* SpecStart: the router started and stopped, with and without an initial  *)
(* hash, written with and without "#", while the browser changes the       *)
(* fragment and delivers its hashchange notifications.                     *)
(***************************************************************************)
S_hash == Str(<<"#">>)

NextStart ==
    \/ RegisterRoute(P_named, Fn(1))
    \/ \E h \in {Undefined, S_empty, Str(H_a7), Str(H_hash_a7), S_hash},
          d \in {Undefined, True} : Start(h, d)
    \/ Stop
    \/ HashChange
    \/ \E f \in Fragments : BrowserHash(f)

SpecStart == Init /\ [][NextStart]_vars

\* A start step of a router that has no listener bound (new, or stopped).
FirstStart == last'.op = "start" /\ hashchange = 0 /\ submit = 0

\* The resolve passes a step accounts for: the ones it made, and one for
\* each resolveHash bound to the hashchange notification it made the browser
\* queue.
PassesDue == Len(passes') + (pending' - pending) * hashchange'

\* C11 as stated: whatever the location hash, initialHash and dontObserveHash
\* are, one call to start leads to exactly one resolve pass, with method
\* "get": made by start, by navigate, or by the one hashchange notification.
C11_StartResolvesOnceAlways ==
    [][FirstStart =>
          /\ PassesDue = 1
          /\ \A i \in DOMAIN passes' : passes'[i].method = S_get]_vars

\* start has a hash to resolve: the location's, or the initialHash it is
\* given, naming a fragment that is not empty.
HasStartHash ==
    \/ getHash(fragment) # <<>>
    \/ /\ Truthy(last'.args[1]) /\ last'.args[1].t = "string"
       /\ LocFragment(last'.args[1].v) # <<>>

\* C11 amended: when the location hash is not empty, or an initialHash naming
\* a non-empty fragment is given, one call to start leads to exactly one
\* resolve pass, with method "get"; with an empty hash and no initialHash it
\* resolves nothing.
C11_StartResolvesOnce ==
    [][FirstStart =>
          /\ HasStartHash => PassesDue = 1
          /\ (getHash(fragment) = <<>> /\ ~Truthy(last'.args[1])) => PassesDue = 0
          /\ getHash(fragment) # <<>> =>
                (passes' = <<resolve(Str(getHash(fragment)), S_get)>> /\ pending' = pending)
          /\ \A i \in DOMAIN passes' : passes'[i].method = S_get]_vars

\* start("a/7") at an empty hash, observing: start made no pass itself, the
\* location is "a/7" and its one hashchange notification is queued.
C11_Witness ==
    /\ last.op = "start" /\ last.args = <<Str(H_a7), Undefined>>
    /\ passes = <<>> /\ fragment = H_a7 /\ pending = 1 /\ hashchange = 1

\* start("a/7", true) at an empty hash: navigate resolved "a/7" itself.
C11_WitnessNotObserving ==
    /\ last.op = "start" /\ last.args = <<Str(H_a7), True>>
    /\ Len(passes) = 1 /\ passes[1].hash = Str(H_a7) /\ hashchange = 0 /\ pending = 1


(***************************************************************************)
(* SpecObserving: the registry built up and resolved while the router is   *)
(* started, stopped and navigated.                                         *)
(***************************************************************************)
NextObserving ==
    \/ \E g \in {Undefined, Fn(1)} : RegisterRoute(P_named, g)
    \/ \E r \in RouteRefs : RemoveRoute(r)
    \/ \E id \in 1..MaxRoutes : AttachAction(id, S_star, Fn(2))
    \/ \E m \in {Undefined, S_get} : Resolve(Str(H_a7), m)
    \/ Navigate(Str(H_a7))
    \/ \E h \in {Undefined, Str(H_a7)}, d \in {Undefined, True} : Start(h, d)
    \/ Stop
    \/ HashChange

SpecObserving == InitRouter /\ [][NextObserving]_vars

\* The resolve calls the claims compare before and after a step.
ProbeHashes == {Str(H_a7), Str(H_b), S_empty}
ProbeMethods == {Undefined, S_get, S_star}

\* What resolve(hash, method) is to give for a registry rs over the Routes h,
\* as a function of the registry alone: for each route accepting the hash, in
\* registry order, its wildcard handlers and then, for a truthy method, the
\* method's handlers, with (method, captured params); true when a route
\* accepted. An empty hash gives false and no call.
RECURSIVE DispatchCalls(_, _, _, _)
DispatchCalls(h, rs, hash, method) ==
    IF rs = <<>> THEN <<>>
    ELSE (IF RouteMatch(h[Head(rs).route].expr, hash.v).isFalse THEN <<>>
          ELSE trigger(Head(rs).route, h[Head(rs).route].events, EventType(S_star),
                       <<method>> \o RouteMatch(h[Head(rs).route].expr, hash.v).args)
               \o (IF ~Truthy(method) THEN <<>>
                   ELSE trigger(Head(rs).route, h[Head(rs).route].events, EventType(method),
                                <<method>> \o RouteMatch(h[Head(rs).route].expr, hash.v).args)))
         \o DispatchCalls(h, Tail(rs), hash, method)

Dispatch(h, rs, hash, method) ==
    [hash |-> hash, method |-> method,
     ret |-> hash.v # <<>> /\ \E k \in DOMAIN rs : ~RouteMatch(h[rs[k].route].expr, hash.v).isFalse,
     calls |-> IF hash.v = <<>> THEN <<>> ELSE DispatchCalls(h, rs, hash, method)]

\* resolve gives, in the current state, what the registry alone determines.
ResolveIsDispatch ==
    \A h \in ProbeHashes, m \in ProbeMethods : resolve(h, m) = Dispatch(heap, routes, h, m)

\* C12: a stop step leaves the registry and the Routes with their handlers
\* as they were, and resolve(hash, method) gives the same result with the
\* same handler calls after it as before it.
C12_StopKeepsRegistry ==
    /\ [](last.op = "stop" => ResolveIsDispatch)
    /\ [][last'.op = "stop" =>
             /\ routes' = routes
             /\ heap' = heap
             /\ ResolveIsDispatch
             /\ \E nh \in {heap'}, nr \in {routes'} :
                   \A h \in ProbeHashes, m \in ProbeMethods :
                       Dispatch(nh, nr, h, m) = Dispatch(heap, routes, h, m)]_vars

\* The router was stopped with a route registered whose get and wildcard
\* handlers resolve("a/7", "get") calls.
C12_Witness ==
    /\ last.op = "stop" /\ ~observingHash /\ hashchange = 0 /\ submit = 0
    /\ Len(routes) = 1
    /\ Len(resolve(Str(H_a7), S_get).calls) = 2
    /\ resolve(Str(H_a7), S_get).ret

\* C13: observingHash changes in start and stop steps only; registerRoute,
\* removeRoute, attachAction and resolve leave it and the listeners alone;
\* and in both states resolve gives what the registry alone determines: the
\* same value and the same handler calls in the same order.
C13_ObservingInertToResolve ==
    /\ [](ResolveIsDispatch /\ (Resolved => passes = <<Dispatch(heap, routes, TheHash, TheMethod)>>))
    /\ [][/\ observingHash' # observingHash => last'.op \in {"start", "stop"}
          /\ last'.op \in {"registerRoute", "removeRoute", "resolve", "attachAction"} =>
                UNCHANGED <<observingHash, hashchange, submit, fragment, pending>>]_vars

\* resolve("a/7", "get") called two handlers while the router observes.
C13_Witness ==
    /\ Resolved /\ observingHash /\ TheHash = Str(H_a7) /\ TheMethod = S_get
    /\ last.ret = TRUE /\ Len(TheCalls) = 2


(***************************************************************************)
(* SpecCatchAll: routes registered with an empty and with falsy patterns,  *)
(* removed and resolved.                                                   *)
(***************************************************************************)
FalsyPatterns == {S_empty, Undefined, Null, False, Zero}

H_0 == <<"0">>

NextCatchAll ==
    \/ \E p \in FalsyPatterns : RegisterRoute(p, Fn(1))
    \/ \E r \in RouteRefs : RemoveRoute(r)
    \/ \E h \in {<<>>, H_a7, H_b, H_0} : Resolve(Str(h), S_get)

SpecCatchAll == InitRouter /\ [][NextCatchAll]_vars

\* The registered Routes constructed from an empty or falsy pattern.
FromFalsy == {id \in Registered : \E p \in FalsyPatterns : heap[id].expr = RouteExpr(p)}

\* C14: a route registered with an empty-string or falsy pattern accepts
\* every non-empty hash, so resolve of a non-empty hash returns true and
\* calls its handler while it is registered.
C14_FalsyPatternIsCatchAll ==
    (Resolved /\ Truthy(TheHash)) =>
        \A id \in FromFalsy :
            /\ Accepts(id, TheHash)
            /\ last.ret = TRUE
            /\ Called(TheCalls, id, EventType(S_get)) = Bound(id, EventType(S_get))


(***************************************************************************)
(* SpecMatch: patterns made of literal text and placeholders, registered   *)
(* with a get handler, and resolved against the hashes obtained by putting *)
(* tokens in the place of the placeholders, with and without extra text.   *)
(***************************************************************************)
\* The pieces of a pattern: literal text, :name and *splat.
Lit(text) == [k |-> "lit", s |-> text]
NamedX == [k |-> "named", s |-> <<":", "x">>]
NamedY == [k |-> "named", s |-> <<":", "y">>]
SplatR == [k |-> "splat", s |-> <<"*", "r">>]

Shapes ==
    { <<Lit(<<"a", "/">>), NamedX>>,             \* a/:x
      <<NamedX, Lit(<<"/">>), NamedY>>,          \* :x/:y
      <<Lit(<<"a", "/">>), SplatR>>,             \* a/*r
      <<NamedX, Lit(<<"-">>), NamedY>>,          \* :x-:y
      <<Lit(<<"b">>)>> }                         \* b

\* Tokens without "/", and one with.
Tokens == {<<"7">>, <<"7", "-", "8">>}
SlashToken == <<"7", "/", "8">>

RECURSIVE PatternText(_)
PatternText(sh) == IF sh = <<>> THEN <<>> ELSE Head(sh).s \o PatternText(Tail(sh))

\* The kinds of the placeholders of a pattern, in declaration order.
RECURSIVE Placeholders(_)
Placeholders(sh) ==
    IF sh = <<>> THEN <<>>
    ELSE (IF Head(sh).k = "lit" THEN <<>> ELSE <<Head(sh).k>>) \o Placeholders(Tail(sh))

\* The hash with the tokens t in the place of the placeholders.
RECURSIVE Subst(_, _)
Subst(sh, t) ==
    IF sh = <<>> THEN <<>>
    ELSE IF Head(sh).k = "lit" THEN Head(sh).s \o Subst(Tail(sh), t)
    ELSE Head(t) \o Subst(Tail(sh), Tail(t))

Tuples(sh) == [1..Len(Placeholders(sh)) -> Tokens]

\* Tuples with a "/" inside the token of a :name and none in a splat's.
SlashTuples(sh) ==
    {t \in [1..Len(Placeholders(sh)) -> Tokens \cup {SlashToken}] :
        /\ \E i \in DOMAIN t : t[i] = SlashToken
        /\ \A i \in DOMAIN t : t[i] = SlashToken => Placeholders(sh)[i] = "named"}

HasSplat(sh) == \E i \in DOMAIN sh : sh[i].k = "splat"

\* Every placeholder is a whole "/"-separated segment of the pattern.
WholeSegments(sh) ==
    \A i \in DOMAIN sh :
        sh[i].k # "lit" =>
            /\ i > 1 => (sh[i - 1].k = "lit" /\ sh[i - 1].s[Len(sh[i - 1].s)] = "/")
            /\ i < Len(sh) => (sh[i + 1].k = "lit" /\ Head(sh[i + 1].s) = "/")

\* The hash with an extra character, or an extra segment, before or after.
ExtraChars(h) == {<<"8">> \o h, h \o <<"8">>}
ExtraSegments(h) == {<<"b", "/">> \o h, h \o <<"/", "b">>}

MatchHashes ==
    UNION {UNION {{Subst(sh, t)} \cup ExtraChars(Subst(sh, t)) \cup ExtraSegments(Subst(sh, t))
                  : t \in Tuples(sh)} : sh \in Shapes}
    \cup UNION {{Subst(sh, t) : t \in SlashTuples(sh)} : sh \in Shapes}

NextMatch ==
    \/ \E sh \in Shapes : RegisterRoute(Str(PatternText(sh)), Fn(1))
    \/ \E h \in MatchHashes : Resolve(Str(h), S_get)

SpecMatch == InitRouter /\ [][NextMatch]_vars

\* The registered Routes constructed from the pattern of a shape.
RoutesOf(sh) == {id \in Registered : heap[id].expr = RouteExpr(Str(PatternText(sh)))}

\* The captured values the handlers of Route id were called with in the last
\* resolve, one entry per call: none when the route did not match.
CapturedBy(id) ==
    LET Mine(c) == c.route = id
        mine == SelectSeq(TheCalls, Mine)
    IN  [i \in DOMAIN mine |-> Tail(mine[i].args)]

\* C15 as stated: for every pattern, the hash with tokens in the place of the
\* placeholders is matched and the captured values are the tokens, in
\* declaration order; with extra leading or trailing characters, or with a
\* "/" inside the token of a :name, the hash is not matched.
C15_CapturesAreTheTokens ==
    Resolved =>
        \A sh \in Shapes : \A id \in RoutesOf(sh) :
            /\ \A t \in Tuples(sh) :
                  /\ TheHash.v = Subst(sh, t) => CapturedBy(id) = <<t>>
                  /\ TheHash.v \in ExtraChars(Subst(sh, t)) \cup ExtraSegments(Subst(sh, t))
                        => CapturedBy(id) = <<>>
            /\ \A t \in SlashTuples(sh) :
                  TheHash.v = Subst(sh, t) => CapturedBy(id) = <<>>

\* C15 amended: the hash with tokens in the place of the n placeholders is
\* matched with exactly n captured values; they are the tokens, in
\* declaration order, when every placeholder is a whole "/"-separated
\* segment of the pattern; and a pattern without a splat matches no hash
\* with an extra leading or trailing segment or with a "/" inside the token
\* of a :name.
C15_CapturesPerSegment ==
    Resolved =>
        \A sh \in Shapes : \A id \in RoutesOf(sh) :
            /\ \A t \in Tuples(sh) :
                  /\ TheHash.v = Subst(sh, t) =>
                        /\ Len(CapturedBy(id)) = 1
                        /\ Len(CapturedBy(id)[1]) = Len(Placeholders(sh))
                        /\ WholeSegments(sh) => CapturedBy(id) = <<t>>
                  /\ (~HasSplat(sh) /\ TheHash.v \in ExtraSegments(Subst(sh, t)))
                        => CapturedBy(id) = <<>>
            /\ \A t \in SlashTuples(sh) :
                  (~HasSplat(sh) /\ TheHash.v = Subst(sh, t)) => CapturedBy(id) = <<>>

\* "7/7-8" resolved against ":x/:y": the handler got ("get", "7", "7-8").
C15_Witness ==
    /\ Resolved /\ TheHash.v = <<"7", "/", "7", "-", "8">>
    /\ \E id \in RoutesOf(<<NamedX, Lit(<<"/">>), NamedY>>) :
          /\ CapturedBy(id) = <<<< <<"7">>, <<"7", "-", "8">> >>>>
          /\ TheCalls[1].args = <<S_get, <<"7">>, <<"7", "-", "8">>>>

\* "b/a/7" resolved against "a/:x" called nothing.
C15_WitnessAnchored ==
    /\ Resolved /\ TheHash.v = <<"b", "/", "a", "/", "7">>
    /\ RoutesOf(<<Lit(<<"a", "/">>), NamedX>>) # {}
    /\ TheCalls = <<>> /\ last.ret = FALSE


\* The registered Routes of the placeholder-free pattern "b".
LiteralRoutes == {id \in Registered : heap[id].expr = RouteExpr(P_lit)}

\* C16: match of a placeholder-free pattern returns an empty list, not
\* false, on the hash it matches, and false on any other; resolve takes the
\* empty list for a match: it returns true and calls the route's handlers
\* with the argument list (method) only, and calls no handler of a route whose
\* match returned false.
C16_EmptyMatchIsAMatch ==
    (Resolved /\ Truthy(TheHash)) =>
        /\ \A id \in LiteralRoutes :
              /\ RouteMatch(heap[id].expr, H_b) = [isFalse |-> FALSE, args |-> <<>>]
              /\ RouteMatch(heap[id].expr, H_a7).isFalse
              /\ TheHash = Str(H_b) =>
                    /\ last.ret = TRUE
                    /\ Called(TheCalls, id, EventType(S_star)) = Bound(id, EventType(S_star))
                    /\ \A i \in DOMAIN TheCalls :
                          TheCalls[i].route = id => TheCalls[i].args = <<TheMethod>>
        /\ \A id \in Registered :
              RouteMatch(heap[id].expr, TheHash.v).isFalse =>
                  \A i \in DOMAIN TheCalls : TheCalls[i].route # id
        /\ last.ret = (\E id \in Registered : ~RouteMatch(heap[id].expr, TheHash.v).isFalse)

\* resolve("b", "put") with "b" and "a/:x" registered, each with a wildcard
\* handler: true, and the one call is of the handler of "b", with ("put").
C16_Witness ==
    /\ Resolved /\ TheHash = Str(H_b) /\ TheMethod = S_put /\ last.ret = TRUE
    /\ Len(routes) = 2
    /\ \A id \in Registered : Bound(id, EventType(S_star)) = 1
    /\ Len(TheCalls) = 1 /\ TheCalls[1].route \in LiteralRoutes
    /\ TheCalls[1].args = <<S_put>>


(***************************************************************************)
(* SpecActions: handlers attached to and detached from Routes, in the one- *)
(* and in the two-argument form, and "a/7" resolved with "get". Every      *)
(* Route is registered with the get handler 1.                             *)
(***************************************************************************)
NextActions ==
    \/ RegisterRoute(P_named, Fn(1))
    \/ \E id \in 1..MaxRoutes : AttachAction(id, S_get, Fn(2))
    \/ \E id \in 1..MaxRoutes : AttachAction(id, S_star, Fn(1))
    \/ \E id \in 1..MaxRoutes : AttachAction(id, Fn(2), Undefined)
    \/ \E id \in 1..MaxRoutes, m \in {S_get, S_star}, f \in {Undefined, Fn(1), Fn(2)} :
          DetachAction(id, m, f)
    \/ \E id \in 1..MaxRoutes : DetachAction(id, Fn(2), Undefined)
    \/ Resolve(Str(H_a7), S_get)

SpecActions == InitRouter /\ [][NextActions]_vars

EventTypes == {EventType(S_get), EventType(S_star), EventType(S_put)}
HandlerIds == {1, 2}

\* How many times handler f is bound for the type in events.
CountIn(events, type, f) ==
    Cardinality({i \in DOMAIN events : events[i].type = type /\ events[i].handler = f})

\* The handlers of Route id before (oe) and after (ne) an attachAction or
\* detachAction step with the arguments of last'.
ActionEffect(id, oe, ne) ==
    /\ last'.args[1] # id => ne = oe
    /\ (last'.args[1] = id /\ last'.op = "attachAction"
          /\ isFunction(last'.args[2]) /\ ~Truthy(last'.args[3])) =>
          ne = Append(oe, [type |-> EventType(S_star), handler |-> last'.args[2].f])
    /\ (last'.args[1] = id /\ last'.op = "detachAction" /\ ~isFunction(last'.args[2])) =>
          \A t \in EventTypes, f \in HandlerIds :
              CountIn(ne, t, f) =
                  IF t = EventType(last'.args[2])
                     /\ (~isFunction(last'.args[3]) \/ last'.args[3].f = f)
                  THEN 0 ELSE CountIn(oe, t, f)
    /\ (last'.args[1] = id /\ last'.op = "detachAction" /\ isFunction(last'.args[2])) =>
          \A t \in EventTypes, f \in HandlerIds :
              CountIn(ne, t, f) =
                  IF t = EventType(S_star) /\ last'.args[2].f = f
                  THEN 0 ELSE CountIn(oe, t, f)

\* C17: attachAction(fn) binds fn for "*"; detachAction(method, fn) removes
\* the bindings of fn for the method and no other, detachAction(method)
\* every binding for the method; the handlers of other methods and of other
\* Routes stay bound; and resolve calls only handlers that are bound when it
\* runs, so none that was detached.
C17_AttachDetachFrame ==
    /\ [](Resolved =>
            \A i \in DOMAIN TheCalls :
                CountIn(heap[TheCalls[i].route].events, TheCalls[i].type, TheCalls[i].handler) > 0)
    /\ [][last'.op \in {"attachAction", "detachAction"} =>
             \A id \in DOMAIN heap :
                 \E oe \in {heap[id].events}, ne \in {heap'[id].events} :
                     ActionEffect(id, oe, ne)]_vars

\* detachAction("get", handler 1) on a Route registered with get handler 1,
\* to which get handler 2 was attached: handler 2 is still bound.
C17_Witness ==
    /\ last.op = "detachAction" /\ last.args = <<1, S_get, Fn(1)>>
    /\ heap[1].events = <<[type |-> EventType(S_get), handler |-> 2]>>

\* attachAction(handler 2) bound it for "*", next to the get handler.
C17_WitnessSingleArgument ==
    /\ last.op = "attachAction" /\ last.args = <<1, Fn(2), Undefined>>
    /\ heap[1].events = <<[type |-> EventType(S_get), handler |-> 1],
                          [type |-> EventType(S_star), handler |-> 2]>>


(***************************************************************************)
(* SpecWildcard: resolve called with the method "*" as well as with "get". *)
(***************************************************************************)
NextWildcard ==
    \/ \E p \in {P_named, P_star} : RegisterRoute(p, Undefined)
    \/ \E r \in RouteRefs : RemoveRoute(r)
    \/ \E id \in 1..MaxRoutes, m \in {S_star, S_get} : AttachAction(id, m, Fn(1))
    \/ \E m \in {S_get, S_star} : Resolve(Str(H_a7), m)

SpecWildcard == InitRouter /\ [][NextWildcard]_vars

\* C18: in one resolve pass, whatever the method is, "*" included, each
\* wildcard handler bound on a matching route is called exactly once and each
\* handler bound for a method at most once.
C18_EachHandlerOncePerPass ==
    (Resolved /\ Truthy(TheHash)) =>
        \A id \in Registered :
            Accepts(id, TheHash) =>
                /\ Called(TheCalls, id, EventType(S_star)) = Bound(id, EventType(S_star))
                /\ \A t \in EventTypes :
                      Called(TheCalls, id, t) <= Bound(id, t)


\* C19: while the router observes, the delivery of a hashchange notification
\* makes exactly one resolve pass, of the current hash with "get", however
\* many times start was called; when it does not observe (after stop), none.
C19_OnePassPerHashChange ==
    [][last'.op = "hashchange" =>
          IF observingHash
          THEN passes' = <<resolve(Str(getHash(fragment)), S_get)>>
          ELSE passes' = <<>>]_vars

\* C20: a navigate step with a non-empty hash accounts for exactly one
\* resolve pass: when the router observes and the location changes, navigate
\* makes none and the one notification it causes makes one; otherwise
\* navigate makes one and no notification makes another.
C20_NavigateResolvedOnce ==
    [][(last'.op = "navigate" /\ Truthy(last'.args[1])) =>
          /\ PassesDue = 1
          /\ IF observingHash /\ fragment' # fragment
             THEN passes' = <<>> /\ pending' = pending + 1
             ELSE Len(passes') = 1 /\ passes'[1].method = S_get]_vars

====
